---------------------------- MODULE Spec2Model ----------------------------
(***************************************************************************)
(* Undo/redo history stack (src/src/lib/hooks/use-undo-redo.tsx) and the   *)
(* text editor session built on it (src/src/components/editor.tsx).        *)
(*                                                                         *)
(* One action of the model is one task of the page: the mount effects, the *)
(* render the load effect schedules, the save effect of that render, or an *)
(* event handler run to completion together with the re-render and the     *)
(* save effect it triggers (React runs those within the event).  State     *)
(* updates made with setText inside one task are batched: the last value   *)
(* set is the text of the next render.                                     *)
(***************************************************************************)
EXTENDS Naturals, Sequences, FiniteSets

(* ------------------------------ bounds -------------------------------- *)

\* Number of user operations in one behaviour.
MaxOps == 6

\* Number of user operations in a behaviour whose first session finds
\* something in localStorage.
MaxStoredOps == 4

\* Longest history log found in localStorage when the first session starts.
MaxInitLog == 2

(* ------------------------------- values -------------------------------- *)
(* A JavaScript value that the editor handles is a string or an array.  A  *)
(* string is the sequence of its characters; an array has its elements and *)
(* the identity of the object, which Object.is compares.                   *)

\* A string.
Str(cs) == [isArr |-> FALSE, chars |-> cs, items |-> <<>>, ref |-> 0]

\* An array that no useState value ever holds: the literal [...] of a
\* handler, the result of JSON.parse.
Arr(its) == [isArr |-> TRUE, chars |-> <<>>, items |-> its, ref |-> 0]

\* structuredClone of one argument of push: a string is itself, an array is
\* a new object, the n-th the stack's push has made.
Clone(v, n) == IF v.isArr THEN [v EXCEPT !.ref = n] ELSE v

\* Object.is(a, b), by which setText finds that the state has not changed.
ObjectIs(a, b) == IF a.isArr /\ b.isArr THEN a.ref = b.ref ELSE a = b

\* value.length.
Length(v) == IF v.isArr THEN Len(v.items) ELSE Len(v.chars)

\* value[i - 1]: an element of an array, a character of a string.
At(v, i) == IF v.isArr THEN v.items[i] ELSE Str(<<v.chars[i]>>)

\* [...value].
Spread(v) == [i \in 1..Length(v) |-> At(v, i)]

RECURSIVE ToString(_)
RECURSIVE Join(_)
\* Array.prototype.join(",") of the elements.
Join(its) ==
  IF Len(its) = 0 THEN <<>>
  ELSE IF Len(its) = 1 THEN ToString(its[1])
  ELSE ToString(its[1]) \o <<",">> \o Join(Tail(its))

\* String(value), as localStorage.setItem stores a value.
ToString(v) == IF v.isArr THEN Join(v.items) ELSE v.chars

\* The text useState starts with, and the text of an emptied editor.
EmptyText == Str(<<>>)

\* The text of one character.
TextOf(c) == Str(<<c>>)

\* The placeholder text handleClearStorage resets the editor to.
defaultText ==
  Str(<<"T", "y", "p", "e", " ", "s", "o", "m", "e", "t", "h", "i", "n", "g",
        " ", "h", "e", "r", "e", " ", "t", "o", " ", "t", "e", "s", "t", " ",
        "u", "n", "d", "o", "/", "r", "e", "d", "o", " ", "f", "u", "n", "c",
        "t", "i", "o", "n", "a", "l", "i", "t", "y", ".", ".", ".">>)

\* Texts a user types into the textarea.
TypedTexts == {EmptyText, TextOf("x"), TextOf("y"), TextOf("z")}

\* Texts found in a history log that an earlier run left in localStorage.
StoredTexts == {TextOf("x"), TextOf("y")}

(* -------------------------------- store -------------------------------- *)

\* localStorage.getItem: null is <<>>, a stored string s is <<s>>.  A stored
\* content is the sequence of its characters.
Absent == <<>>

Present(s) == <<s>>

\* savedText || "" : null and the empty string both give "".
OrEmpty(item) == IF item = Absent THEN <<>> ELSE item[1]

\* A stored history blob is a string of JSON text, kept as its token sequence.
LBracket == <<"[", <<>>>>

RBracket == <<"]", <<>>>>

Comma == <<",", <<>>>>

StringLit(cs) == <<"str", cs>>

RECURSIVE Stringify(_)
RECURSIVE Elements(_)
\* The comma separated JSON texts of the elements of an array.
Elements(its) ==
  IF Len(its) = 0 THEN <<>>
  ELSE IF Len(its) = 1 THEN Stringify(its[1])
  ELSE Stringify(its[1]) \o <<Comma>> \o Elements(Tail(its))

\* JSON.stringify of a value.
Stringify(v) ==
  IF v.isArr THEN <<LBracket>> \o Elements(v.items) \o <<RBracket>>
  ELSE <<StringLit(v.chars)>>

\* What a parse that fails gives.
NoParse == [ok |-> FALSE, val |-> Arr(<<>>), rest |-> <<>>]

RECURSIVE ParseValue(_)
RECURSIVE ParseElements(_)
\* The elements of an array from the tokens that follow its opening bracket,
\* one at least, up to the closing bracket; rest is what follows it.
ParseElements(toks) ==
  LET first == ParseValue(toks)
  IN  IF ~first.ok \/ Len(first.rest) = 0 THEN NoParse
      ELSE IF first.rest[1] = RBracket
      THEN [ok |-> TRUE, val |-> <<first.val>>, rest |-> Tail(first.rest)]
      ELSE IF first.rest[1] = Comma
      THEN LET others == ParseElements(Tail(first.rest))
           IN  IF others.ok
               THEN [ok |-> TRUE, val |-> <<first.val>> \o others.val,
                     rest |-> others.rest]
               ELSE NoParse
      ELSE NoParse

\* The JSON value the tokens start with; rest is what follows it.
ParseValue(toks) ==
  IF Len(toks) = 0 THEN NoParse
  ELSE IF toks[1][1] = "str"
  THEN [ok |-> TRUE, val |-> Str(toks[1][2]), rest |-> Tail(toks)]
  ELSE IF toks[1] # LBracket \/ Len(toks) = 1 THEN NoParse
  ELSE IF toks[2] = RBracket
  THEN [ok |-> TRUE, val |-> Arr(<<>>), rest |-> SubSeq(toks, 3, Len(toks))]
  ELSE LET elems == ParseElements(Tail(toks))
       IN  IF elems.ok
           THEN [ok |-> TRUE, val |-> Arr(elems.val), rest |-> elems.rest]
           ELSE NoParse

\* JSON.parse of a blob: ok is FALSE when it throws a SyntaxError.
JsonParse(blob) ==
  LET whole == ParseValue(blob)
  IN  IF whole.ok /\ Len(whole.rest) = 0
      THEN [ok |-> TRUE, val |-> whole.val]
      ELSE [ok |-> FALSE, val |-> Arr(<<>>)]

(* ------------------------------ actions -------------------------------- *)

\* Mutant of UndoAction: the two captured values change places.
UndoActionSwapped(kind, first, second) ==
  [kind |-> kind, args |-> <<second, first>>]

\* An UndoAction: the closures of one of the three places that create one,
\* with the values they captured.
\*   "commit": updateText's closures over newText and oldText
\*   "replay": the load effect's callbacks with clonedArgs = [newText, oldText]
\*   "clear" : handleClear's callbacks with clonedArgs = ["", oldText]
UndoAction(kind, first, second) == [kind |-> kind, args |-> <<first, second>>]

\* The action as the object it is: n tells it from every other action the
\* stack holds, whatever the values captured.
Object(action, n) == [kind |-> action.kind, args |-> action.args, id |-> n]

\* The parameter `text` of a callback (text: string) => ... that push calls
\* as fn(...clonedArgs): the first cloned argument.
FirstParam(args) == args[1]

\* The text doWithData passes to setText.
DoText(action) ==
  CASE action.kind = "commit" -> action.args[1]
    [] action.kind = "replay" -> FirstParam(action.args)
    [] action.kind = "clear" -> EmptyText

\* Mutant of UndoText: a commit's undo closure sets newText.
UndoTextSetsNew(action) == FirstParam(action.args)

\* The text undoWithData passes to setText.
UndoText(action) ==
  CASE action.kind = "commit" -> action.args[2]
    [] action.kind = "replay" -> FirstParam(action.args)
    [] action.kind = "clear" -> FirstParam(action.args)

\* Mutant of UndoHistory: every undo callback appends the text it set.
UndoHistoryAlwaysAppends(action, history) ==
  Arr(Spread(history) \o <<UndoText(action)>>)

\* historyRef.current after undoWithData: undoing a clear appends the text
\* it restored.
UndoHistory(action, history) ==
  IF action.kind = "clear"
  THEN Arr(Spread(history) \o <<FirstParam(action.args)>>)
  ELSE history

(* --------------------------- the history stack ------------------------- *)

\* A stack is its two arrays; ran holds the action whose callback the
\* operation invoked, if it invoked one.
Stack(p, f, ran) == [past |-> p, future |-> f, ran |-> ran]

\* Mutant of StackPush: past.unshift(action) instead of past.push(action).
StackPushUnshifts(p, f, action) == Stack(<<action>> \o p, <<>>, <<action>>)

\* push: action.doWithData(); past.push(action); future.length = 0.
StackPush(p, f, action) == Stack(Append(p, action), <<>>, <<action>>)

\* Mutant of StackPushManual: the redoable steps are not wiped.
StackPushManualKeepsFuture(p, f, action) == Stack(Append(p, action), f, <<>>)

\* pushManualAction: past.push(action); future.length = 0, nothing invoked.
StackPushManual(p, f, action) == Stack(Append(p, action), <<>>, <<>>)

\* Mutant of StackUndo: with nothing to undo, future is emptied.
StackUndoEmptyWipesFuture(p, f) ==
  IF Len(p) = 0 THEN Stack(p, <<>>, <<>>)
  ELSE Stack(SubSeq(p, 1, Len(p) - 1), <<p[Len(p)]>> \o f, <<p[Len(p)]>>)

\* Mutant of StackUndo: the action is read but not popped.
StackUndoNoPop(p, f) ==
  IF Len(p) = 0 THEN Stack(p, f, <<>>)
  ELSE Stack(p, <<p[Len(p)]>> \o f, <<p[Len(p)]>>)

\* undo: past.pop(), action.undoWithData(), future.unshift(action).
StackUndo(p, f) ==
  IF Len(p) = 0 THEN Stack(p, f, <<>>)
  ELSE Stack(SubSeq(p, 1, Len(p) - 1), <<p[Len(p)]>> \o f, <<p[Len(p)]>>)

\* Mutant of StackRedo: future.pop() instead of future.shift().
StackRedoFromBack(p, f) ==
  IF Len(f) = 0 THEN Stack(p, f, <<>>)
  ELSE Stack(Append(p, f[Len(f)]), SubSeq(f, 1, Len(f) - 1), <<f[Len(f)]>>)

\* Mutant of StackRedo: the action is read at future[0] and left there.
StackRedoKeepsFront(p, f) ==
  IF Len(f) = 0 THEN Stack(p, f, <<>>)
  ELSE Stack(Append(p, f[1]), f, <<f[1]>>)

\* redo: future.shift(), action.doWithData(), past.push(action).
StackRedo(p, f) ==
  IF Len(f) = 0 THEN Stack(p, f, <<>>)
  ELSE Stack(Append(p, f[1]), Tail(f), <<f[1]>>)

\* Mutant of StackClear: only future is emptied.
StackClearKeepsPast(p, f) == Stack(p, <<>>, <<>>)

\* clear: past.length = 0; future.length = 0.
StackClear(p, f) == Stack(<<>>, <<>>, <<>>)

(* ------------------------------- state --------------------------------- *)

VARIABLES
  text,                 \* useState text as last rendered: the live value
  isLoaded,             \* useState isLoaded as last rendered
  scheduled,            \* the text of the render the load effect scheduled
  savePending,          \* the save effect of that render has yet to run
  past,                 \* the stack's executed actions, most recent last
  future,               \* the stack's reversed actions, next to redo first
  isUndoRedoOperation,  \* the reentrancy flag (a ref)
  historyRef,           \* historyRef.current: the in-memory log
  created,              \* UndoAction objects made since the stack was last empty
  lsContent,            \* localStorage "textbox-content"
  lsHistory,            \* localStorage "textbox-history"
  hookUndoAvailable,    \* undoAvailable as returned to the last render
  hookRedoAvailable,    \* redoAvailable as returned to the last render
  steps,                \* history: user operations so far
  lastOp,               \* history: the operation that led to this state
  prevText,             \* history: the live value before that operation
  lastArg,              \* history: the text that operation was given
  invoked,              \* history: the action whose callback it ran last
  discarded,            \* history: reversed actions that operation dropped
  loaded,               \* history: what the last load found and what preceded it
  session,              \* history: what the operations since the load were
  run,                  \* history: commits then undos from an empty stack
  bracket,              \* history: undos not yet redone
  scenario              \* history: progress through the scenario of section 8

progVars == <<text, isLoaded, scheduled, savePending, past, future,
              isUndoRedoOperation, historyRef, created, lsContent, lsHistory,
              hookUndoAvailable, hookRedoAvailable>>

histVars == <<steps, lastOp, prevText, lastArg, invoked, discarded, loaded,
              session, run, bracket, scenario>>

vars == <<progVars, histVars>>

\* get undoAvailable() of the stack.
undoAvailable == Len(past) > 0

\* get redoAvailable() of the stack.
redoAvailable == Len(future) > 0

\* Mutant of SaveEffect: the effect never writes.
SaveEffectNeverWrites(content, changed, newText) == content

\* The save effect, which runs after a render in which text or isLoaded
\* changed: localStorage.setItem("textbox-content", text).
SaveEffect(content, changed, newText) ==
  IF changed THEN Present(ToString(newText)) ELSE content

\* useUndoStack reads the stack's getters during a render; a handler that
\* leaves every useState value as it was causes no render.
Render(changed) ==
  /\ hookUndoAvailable' = IF changed THEN Len(past') > 0 ELSE hookUndoAvailable
  /\ hookRedoAvailable' = IF changed THEN Len(future') > 0 ELSE hookRedoAvailable

\* The document listens for Ctrl+Z and Ctrl+Y from the mount effects on,
\* before the buttons and the textarea are on the page.
listening == isLoaded \/ scheduled # <<>>

\* setText(value) by a callback of an action (ran is the action, if one was
\* invoked).  While the render of the load effect is scheduled the value
\* joins its queue and the last one set is the one rendered; after it the
\* handler's event renders the value.
SetText(ran, value) ==
  IF scheduled # <<>>
  THEN /\ scheduled' = (IF ran = <<>> THEN scheduled ELSE <<value>>)
       /\ text' = text
  ELSE /\ scheduled' = scheduled
       /\ text' = (IF ran = <<>> THEN text ELSE value)

\* What follows a handler that has set text': when the state changed, the
\* render and its save effect, ahead of which React runs a save effect still
\* pending; when it did not, nothing, and a pending save effect stays so.
\* content is the content key as the handler left it.
Settle(content) ==
  /\ lsContent' = SaveEffect(content, ~ObjectIs(text', text), text')
  /\ savePending' = (savePending /\ ObjectIs(text', text))
  /\ Render(~ObjectIs(text', text))

\* Mutant of AfterCallback: the callback returns without resetting the flag.
AfterCallbackLeavesFlag(ran, flag) == IF ran = <<>> THEN flag ELSE TRUE

\* A callback of an action sets the reentrancy flag, calls setText and
\* resets the flag.
AfterCallback(ran, flag) == IF ran = <<>> THEN flag ELSE FALSE

\* The history logs an earlier run may have left behind.
InitLogs == UNION {[1..n -> StoredTexts] : n \in 0..MaxInitLog}

\* Blobs that JSON.parse rejects: ["x" and "x", .
MalformedBlobs ==
  {<<LBracket, StringLit(<<"x">>)>>, <<StringLit(<<"x">>), Comma>>}

\* Blobs that JSON.parse accepts and that are no array of strings: "xy" and
\* ["x",["y"]].
OtherBlobs ==
  {<<StringLit(<<"x", "y">>)>>,
   <<LBracket, StringLit(<<"x">>), Comma,
     LBracket, StringLit(<<"y">>), RBracket, RBracket>>}

\* What localStorage holds under "textbox-history" when the page first opens.
InitBlobs ==
  {Absent, Present(<<>>)}
    \cup {Present(b) : b \in MalformedBlobs \cup OtherBlobs}
    \cup {Present(Stringify(Arr(h))) : h \in InitLogs}

\* What localStorage holds under "textbox-content" when the page first opens.
InitContents == {Absent, Present(<<>>), Present(<<"x">>)}

\* The component as first rendered, before its mount effects have run.
Mounted ==
  /\ text = EmptyText
  /\ isLoaded = FALSE
  /\ scheduled = <<>>
  /\ savePending = FALSE
  /\ past = <<>>
  /\ future = <<>>
  /\ isUndoRedoOperation = FALSE
  /\ historyRef = Arr(<<>>)
  /\ created = 0
  /\ hookUndoAvailable = FALSE
  /\ hookRedoAvailable = FALSE

\* The load effect's loop "for (let i = 1; i < history.length; i++)" from its
\* iteration i on (i counts from 2 here, sequences being 1-based): pushAction
\* with newText = history[i] and oldText = history[i - 1], which push clones.
\* The stack is new when the effect runs, so the actions in past are all
\* there are.
RECURSIVE Replay(_, _, _)
Replay(stack, history, i) ==
  IF i > Length(history) THEN stack
  ELSE LET n == Len(stack.past) + 1
       IN  Replay(StackPush(stack.past, stack.future,
                            Object(UndoAction("replay",
                                              Clone(At(history, i), 2 * n - 1),
                                              Clone(At(history, i - 1), 2 * n)),
                                   n)),
                  history, i + 1)

(* --------------------------- history variables ------------------------- *)
(* They record what has happened so that a property of a sequence of       *)
(* operations can be written as a predicate of one state.  No action of    *)
(* the program reads them.  The operations are                             *)
(*   "effects"  the mount effects;                                         *)
(*   "load"     the render they scheduled, no event having come before it: *)
(*              the initialization is complete;                            *)
(*   "render"   that render, after an event;                               *)
(*   "commit", "undo", "redo", "clear", "hardReset", "reload"              *)
(*              the operations of a user.                                  *)
(* The save effect of the scheduled render leaves them as they are.        *)

\* The live value and the two arrays.
Snapshot == [text |-> text, past |-> past, future |-> future]

\* The live values that successive undos of the actions of p produce.
UndoTexts(p) == [i \in 1..Len(p) |-> UndoText(p[Len(p) + 1 - i])]

\* lastArg of an operation that is given no text.
NoArg == EmptyText

\* The scenario of section 8 of the specification.
Scenario8 ==
  << <<"commit", TextOf("x")>>, <<"commit", TextOf("y")>>, <<"undo", NoArg>>,
     <<"commit", TextOf("z")>>, <<"undo", NoArg>>, <<"undo", NoArg>> >>

\* scenario when the operations made are not a prefix of Scenario8.
ScenarioOff == Len(Scenario8) + 1

RunOff == [on |-> FALSE, base |-> EmptyText, commits |-> 0, undos |-> 0]

BracketOff == [snaps |-> <<>>, expect |-> <<>>, pairs |-> 0]

LoadedOff == [content |-> Absent, undosOnly |-> FALSE, undos |-> 0]

Observe(op, arg) ==
  /\ steps' = IF op \in {"effects", "load", "render"} THEN steps ELSE steps + 1
  /\ lastOp' = op
  /\ prevText' = text
  /\ lastArg' = arg
  /\ discarded' = IF op \in {"commit", "clear"} THEN Len(future) ELSE 0
  /\ loaded' =
       IF op = "load"
       THEN [content |-> lsContent, undosOnly |-> TRUE, undos |-> 0]
       ELSE IF op = "undo" /\ loaded.undosOnly
       THEN [content |-> Absent, undosOnly |-> TRUE, undos |-> loaded.undos + 1]
       ELSE LoadedOff
  /\ session' =
       [pure |-> IF op = "load" THEN TRUE
                 ELSE session.pure /\ op \in {"commit", "undo", "redo"},
        foreign |-> session.foreign \/ op = "hardReset",
        reset |-> IF op = "hardReset" THEN <<Len(past) + Len(future)>>
                  ELSE IF op \in {"undo", "redo"} THEN session.reset
                  ELSE <<>>,
        prev |-> IF op = "reload"
                 THEN IF session.pure /\ future = <<>>
                      THEN <<UndoTexts(past)>> ELSE <<>>
                 ELSE IF op \in {"effects", "load"} THEN session.prev ELSE <<>>]
  /\ run' =
       IF op \in {"load", "hardReset"}
       THEN IF past' = <<>> /\ future' = <<>>
            THEN [on |-> TRUE, base |-> text', commits |-> 0, undos |-> 0]
            ELSE RunOff
       ELSE IF op = "commit" /\ run.on /\ run.undos = 0
       THEN [run EXCEPT !.commits = @ + 1]
       ELSE IF op = "undo" /\ run.on /\ run.undos < run.commits
       THEN [run EXCEPT !.undos = @ + 1]
       ELSE RunOff
  /\ bracket' =
       IF op = "undo" /\ Len(past) > 0 /\ past[Len(past)].kind = "commit"
       THEN [snaps |-> Append(bracket.snaps, Snapshot), expect |-> <<>>,
             pairs |-> 0]
       ELSE IF op = "redo" /\ Len(bracket.snaps) > 0
       THEN [snaps |-> SubSeq(bracket.snaps, 1, Len(bracket.snaps) - 1),
             expect |-> <<bracket.snaps[Len(bracket.snaps)]>>,
             pairs |-> bracket.pairs + 1]
       ELSE BracketOff
  /\ scenario' =
       IF op = "load"
       THEN IF past' = <<>> /\ future' = <<>> /\ text' = EmptyText
            THEN 0 ELSE ScenarioOff
       ELSE IF scenario < Len(Scenario8) /\ Scenario8[scenario + 1] = <<op, arg>>
       THEN scenario + 1
       ELSE ScenarioOff

(* ------------------------------ operations ----------------------------- *)

Init ==
  /\ Mounted
  /\ lsContent \in InitContents
  /\ lsHistory \in InitBlobs
  /\ steps = IF lsContent = Absent /\ lsHistory = Absent THEN 0
             ELSE MaxOps - MaxStoredOps
  /\ lastOp = "mount"
  /\ prevText = EmptyText
  /\ lastArg = NoArg
  /\ invoked = <<>>
  /\ discarded = 0
  /\ loaded = LoadedOff
  /\ session = [pure |-> FALSE,
                foreign |-> ~(lsContent = Absent /\ lsHistory = Absent),
                reset |-> <<>>, prev |-> <<>>]
  /\ run = RunOff
  /\ bracket = BracketOff
  /\ scenario = ScenarioOff

\* if (savedHistory): null and the empty string are falsy.
Truthy(item) == item # Absent /\ item[1] # <<>>

\* The value the load effect replays: the parsed savedHistory, and nothing
\* when there is none or JSON.parse throws.
ReplayedLog(savedHistory) ==
  IF Truthy(savedHistory) /\ JsonParse(savedHistory[1]).ok
  THEN JsonParse(savedHistory[1]).val
  ELSE Arr(<<>>)

\* Mutant of LoadedLog: the catch block does not reset historyRef.current.
LoadedLogNoFallback(savedHistory, initialText) ==
  IF ~Truthy(savedHistory) THEN Arr(<<initialText>>)
  ELSE JsonParse(savedHistory[1]).val

\* historyRef.current as the load effect leaves it: the parsed savedHistory,
\* and [initialText] when there is none or JSON.parse throws.
LoadedLog(savedHistory, initialText) ==
  IF ~Truthy(savedHistory) THEN Arr(<<initialText>>)
  ELSE IF JsonParse(savedHistory[1]).ok THEN JsonParse(savedHistory[1]).val
  ELSE Arr(<<initialText>>)

\* The mount effects: "Load from localStorage on mount", which schedules a
\* render with the last text set and isLoaded true; the save effect, which
\* finds isLoaded false and writes nothing; the keydown listener.
Load ==
  /\ ~isLoaded
  /\ scheduled = <<>>
  /\ LET initialText == Str(OrEmpty(lsContent))
         history == ReplayedLog(lsHistory)
         stack == IF Length(history) > 1
                  THEN Replay(Stack(past, future, <<>>), history, 2)
                  ELSE Stack(past, future, <<>>)
     IN  /\ historyRef' = LoadedLog(lsHistory, initialText)
         /\ past' = stack.past
         /\ future' = stack.future
         /\ created' = Len(stack.past)
         /\ scheduled' = <<IF stack.ran = <<>> THEN initialText
                           ELSE DoText(stack.ran[1])>>
         /\ isUndoRedoOperation' = AfterCallback(stack.ran, isUndoRedoOperation)
         /\ invoked' = stack.ran
  /\ UNCHANGED <<text, isLoaded, savePending, lsContent, lsHistory,
                 hookUndoAvailable, hookRedoAvailable>>
  /\ Observe("effects", NoArg)

\* The render the load effect scheduled: the text last set, isLoaded true
\* and the getters of the stack as they are now.  Its save effect is to run.
ShowLoaded ==
  /\ scheduled # <<>>
  /\ text' = scheduled[1]
  /\ isLoaded' = TRUE
  /\ scheduled' = <<>>
  /\ savePending' = TRUE
  /\ UNCHANGED <<past, future, isUndoRedoOperation, historyRef, created,
                 lsContent, lsHistory>>
  /\ Render(TRUE)
  /\ invoked' = <<>>
  /\ Observe(IF lastOp = "effects" THEN "load" ELSE "render", NoArg)

\* The save effect of that render, when no render of an event has run it
\* first.
SaveLoaded ==
  /\ savePending
  /\ lsContent' = SaveEffect(lsContent, TRUE, text)
  /\ savePending' = FALSE
  /\ UNCHANGED <<text, isLoaded, scheduled, past, future, isUndoRedoOperation,
                 historyRef, created, lsHistory, hookUndoAvailable,
                 hookRedoAvailable>>
  /\ UNCHANGED histVars

\* handleTextChange: updateText(e.target.value, text).
Commit(newText) ==
  /\ isLoaded
  /\ steps < MaxOps
  /\ text' = newText
  /\ IF isUndoRedoOperation
     THEN UNCHANGED <<historyRef, lsHistory, past, future, created>>
     ELSE LET stack == StackPushManual(past, future,
                                       Object(UndoAction("commit", newText, text),
                                              created + 1))
          IN  /\ created' = created + 1
              /\ historyRef' = Arr(Spread(historyRef) \o <<newText>>)
              /\ lsHistory' = Present(Stringify(historyRef'))
              /\ past' = stack.past
              /\ future' = stack.future
  /\ Settle(lsContent)
  /\ UNCHANGED <<isLoaded, scheduled, isUndoRedoOperation>>
  /\ invoked' = <<>>
  /\ Observe("commit", newText)

\* handleUndo, from the button or from Ctrl+Z: stack.undo().
Undo ==
  /\ listening
  /\ steps < MaxOps
  /\ LET stack == StackUndo(past, future)
     IN  /\ past' = stack.past
         /\ future' = stack.future
         /\ SetText(stack.ran,
                    IF stack.ran = <<>> THEN text ELSE UndoText(stack.ran[1]))
         /\ historyRef' = IF stack.ran = <<>> THEN historyRef
                          ELSE UndoHistory(stack.ran[1], historyRef)
         /\ lsHistory' = IF stack.ran # <<>> /\ stack.ran[1].kind = "clear"
                         THEN Present(Stringify(historyRef'))
                         ELSE lsHistory
         /\ isUndoRedoOperation' = AfterCallback(stack.ran, isUndoRedoOperation)
         /\ invoked' = stack.ran
  /\ Settle(lsContent)
  /\ UNCHANGED <<isLoaded, created>>
  /\ Observe("undo", NoArg)

\* handleRedo, from the button or from Ctrl+Y: stack.redo().
Redo ==
  /\ listening
  /\ steps < MaxOps
  /\ LET stack == StackRedo(past, future)
     IN  /\ past' = stack.past
         /\ future' = stack.future
         /\ SetText(stack.ran,
                    IF stack.ran = <<>> THEN text ELSE DoText(stack.ran[1]))
         /\ isUndoRedoOperation' = AfterCallback(stack.ran, isUndoRedoOperation)
         /\ invoked' = stack.ran
  /\ Settle(lsContent)
  /\ UNCHANGED <<isLoaded, historyRef, lsHistory, created>>
  /\ Observe("redo", NoArg)

\* handleClear.
Clear ==
  /\ isLoaded
  /\ steps < MaxOps
  /\ LET cleared == StackClear(past, future)
         stack == StackPush(cleared.past, cleared.future,
                            Object(UndoAction("clear", Clone(EmptyText, 1),
                                              Clone(text, 2)),
                                   1))
     IN  /\ created' = 1
         /\ historyRef' = Arr(<<EmptyText>>)
         /\ lsHistory' = Present(Stringify(historyRef'))
         /\ past' = stack.past
         /\ future' = stack.future
         /\ text' = DoText(stack.ran[1])
         /\ isUndoRedoOperation' = AfterCallback(stack.ran, isUndoRedoOperation)
         /\ invoked' = stack.ran
  /\ Settle(lsContent)
  /\ UNCHANGED <<isLoaded, scheduled>>
  /\ Observe("clear", NoArg)

\* handleClearStorage.
HardReset ==
  /\ isLoaded
  /\ steps < MaxOps
  /\ LET stack == StackClear(past, future)
     IN  /\ past' = stack.past
         /\ future' = stack.future
  /\ created' = 0
  /\ text' = defaultText
  /\ historyRef' = Arr(<<defaultText>>)
  /\ lsHistory' = Absent
  /\ Settle(Absent)
  /\ UNCHANGED <<isLoaded, scheduled, isUndoRedoOperation>>
  /\ invoked' = <<>>
  /\ Observe("hardReset", NoArg)

\* The page is closed and opened again: a new Editor is mounted over the
\* same localStorage.  A render still scheduled and a save effect still
\* pending are lost.
Reload ==
  /\ listening
  /\ steps < MaxOps
  /\ text' = EmptyText
  /\ isLoaded' = FALSE
  /\ scheduled' = <<>>
  /\ savePending' = FALSE
  /\ past' = <<>>
  /\ future' = <<>>
  /\ isUndoRedoOperation' = FALSE
  /\ historyRef' = Arr(<<>>)
  /\ created' = 0
  /\ hookUndoAvailable' = FALSE
  /\ hookRedoAvailable' = FALSE
  /\ UNCHANGED <<lsContent, lsHistory>>
  /\ invoked' = <<>>
  /\ Observe("reload", NoArg)

Next ==
  \/ Load
  \/ ShowLoaded
  \/ SaveLoaded
  \/ \E newText \in TypedTexts : Commit(newText)
  \/ Undo
  \/ Redo
  \/ Clear
  \/ HardReset
  \/ Reload

Spec == Init /\ [][Next]_vars

(* ------------------------------- claims -------------------------------- *)

\* The step is the operation op of a user.
Does(op) == lastOp' = op /\ steps' = steps + 1

\* C1: from an empty history stack and live value v0, after n commits and
\* then k undos the stack still offers an undo while k < n, and once k = n
\* the live value is v0 again and the stack offers no undo.  undoAvailable
\* is the stack's getter.
C1_CommitsThenUndos ==
  run.on =>
    /\ run.undos < run.commits => undoAvailable
    /\ run.undos = run.commits => text = run.base /\ ~undoAvailable

\* Three commits, one of them of the text already there, all undone.
C1_Witness ==
  /\ run.on
  /\ run.commits >= 3
  /\ run.undos = run.commits
  /\ \E i \in 1..Len(future) : future[i].args[1] = future[i].args[2]

\* C2: a redo that answers an undo of a commit-created action puts the live
\* value, the executed sequence and the reversed sequence back as they were
\* before that undo; so k undos followed by k redos change none of the three.
C2_RedoInvertsUndo ==
  bracket.expect # <<>> => Snapshot = bracket.expect[1]

\* Two undos answered by two redos.
C2_Witness ==
  /\ lastOp = "redo"
  /\ bracket.pairs >= 2
  /\ bracket.snaps = <<>>
  /\ Len(past) >= 2

\* The operations that push an action: the replay of the load effect pushes
\* in "effects", and "load" completes it.
PushOps == {"commit", "clear", "effects", "load"}

\* C3: right after a commit, a clearContent or the load's replay the reversed
\* sequence is empty and redoAvailable is false, and a redo made then changes
\* nothing.
C3_PushEmptiesReversed ==
  /\ [](lastOp \in PushOps => future = <<>> /\ ~redoAvailable)
  /\ [][(lastOp \in PushOps /\ Does("redo")) => (progVars' = progVars)]_vars

\* A commit that dropped two undone actions.
C3_Witness == lastOp = "commit" /\ discarded >= 2 /\ future = <<>>

\* C4: clearContent followed by one undo restores the live value held just
\* before the clearContent.
C4_UndoOfClearRestores ==
  [][(lastOp = "clear" /\ Does("undo")) => text' = prevText]_vars

\* A persisted log: an array of strings.
IsLog(v) == v.isArr /\ \A i \in 1..Len(v.items) : ~v.items[i].isArr

\* The value a stored item holds, as JSON.parse reads it.
StoredLog(item) == JsonParse(item[1]).val

\* The stored item holds a log of one entry at least.
HoldsLog(item) ==
  /\ Truthy(item)
  /\ JsonParse(item[1]).ok
  /\ IsLog(StoredLog(item))
  /\ Length(StoredLog(item)) >= 1

\* C5: after an initialization that parsed a log h of N >= 1 entries, the
\* k-th undo in a row leaves the live value h[N-1-k] (0-based) for k <= N-1,
\* and a later one changes nothing.
C5_UndoAfterLoadWalksLog ==
  (/\ loaded.undosOnly
   /\ loaded.undos >= 1
   /\ HoldsLog(lsHistory))
    => IF loaded.undos <= Length(historyRef) - 1
       THEN text = At(historyRef, Length(historyRef) - loaded.undos)
       ELSE text = prevText /\ past = <<>>

\* C6: after hardReset, and after any undos and redos that follow it, both
\* sequences are empty and the live value is the default placeholder.
C6_HardResetNotUndoable ==
  session.reset # <<>> =>
    /\ past = <<>>
    /\ future = <<>>
    /\ ~undoAvailable
    /\ ~redoAvailable
    /\ text = defaultText

\* An undo made after a hardReset that dropped at least two actions.
C6_Witness ==
  /\ session.reset # <<>>
  /\ session.reset[1] >= 2
  /\ lastOp = "undo"

\* The stored items whose blob JSON.parse rejects.
Unparseable == {Present(b) : b \in MalformedBlobs}

\* C7: an initialization that finds an unparseable log and content c
\* completes with live value c, an empty history stack and the in-memory
\* log [c].
C7_MalformedLogFallsBack ==
  (lastOp = "load" /\ lsHistory \in Unparseable) =>
    /\ isLoaded
    /\ text = Str(OrEmpty(loaded.content))
    /\ past = <<>>
    /\ future = <<>>
    /\ ~undoAvailable
    /\ ~redoAvailable
    /\ historyRef = Arr(<<Str(OrEmpty(loaded.content))>>)

\* An initialization with content "x" and an unparseable log.
C7_Witness ==
  /\ lastOp = "load"
  /\ lsHistory \in Unparseable
  /\ loaded.content = Present(<<"x">>)
  /\ text = TextOf("x")

\* The live value, undoAvailable and redoAvailable after each step of
\* Scenario8.
Expected8 ==
  << <<TextOf("x"), TRUE, FALSE>>, <<TextOf("y"), TRUE, FALSE>>,
     <<TextOf("x"), TRUE, TRUE>>, <<TextOf("z"), TRUE, FALSE>>,
     <<TextOf("x"), TRUE, TRUE>>, <<EmptyText, FALSE, TRUE>> >>

\* C8: from an empty history and live value "", commit x, commit y, undo,
\* commit z, undo, undo give the live values x, y, x, z, x, "" with
\* undoAvailable true after every step but the last and redoAvailable true
\* after each undo not yet followed by a commit.
C8_Scenario ==
  scenario \in 1..Len(Scenario8) =>
    /\ text = Expected8[scenario][1]
    /\ undoAvailable = Expected8[scenario][2]
    /\ redoAvailable = Expected8[scenario][3]

\* The whole scenario has run.
C8_Witness == scenario = Len(Scenario8) /\ lastOp = "undo"

\* C9: when the store was written only by sessions that committed, undid,
\* redid and cleared, the live value after an initialization is the content
\* the store held.
C9_LoadRestoresContent ==
  (lastOp = "load" /\ ~session.foreign) => text = Str(OrEmpty(loaded.content))

\* C10: when the previous session made only commits, undos and redos and
\* ended with reversed empty, the initialized session holds as many executed
\* actions and successive undos give the live values they would have given
\* there.
C10_RestartUndoEquivalent ==
  (lastOp = "load" /\ ~session.foreign /\ session.prev # <<>>)
    => UndoTexts(past) = session.prev[1]

\* The operations a user makes on a session.
UserOps == {"commit", "undo", "redo", "clear", "hardReset"}

\* The initialization is complete: the page is rendered and the save effect
\* of its render has run.
Initialized == isLoaded /\ ~savePending

\* C11 as claimed: once the initialization is complete, after every commit,
\* undo, redo, clearContent and hardReset the content key holds exactly the
\* live value.
C11_ContentInSync ==
  (lastOp \in UserOps /\ Initialized) => lsContent = Present(ToString(text))

\* C11 as amended: once the initialization is complete, after every
\* operation the content key holds exactly the live value, or it is absent
\* and the live value is the default placeholder (a hardReset found the live
\* value already the default and the live value has not changed since).
C11_ContentInSyncOrErased ==
  (lastOp \in UserOps /\ Initialized) =>
    \/ lsContent = Present(ToString(text))
    \/ lsContent = Absent /\ text = defaultText /\ session.foreign

\* An undo made while the content key is absent.
C11_Witness ==
  /\ lastOp = "undo"
  /\ Initialized
  /\ lsContent = Absent
  /\ text = defaultText

\* C12: once hardReset has completed neither key is in the store, the live
\* value is the default placeholder, the in-memory log is [default] and the
\* history stack is empty.
C12_HardResetErasesKeys ==
  lastOp = "hardReset" =>
    /\ lsContent = Absent
    /\ lsHistory = Absent
    /\ text = defaultText
    /\ historyRef = Arr(<<defaultText>>)
    /\ past = <<>>
    /\ future = <<>>

\* C13: after every completed operation on the rendered page, the
\* initialization included, the undoAvailable and redoAvailable the
\* presentation layer holds tell whether executed and reversed are non-empty.
C13_FlagsNeverStale ==
  (lastOp \in UserOps \cup {"load"} /\ isLoaded) =>
    /\ hookUndoAvailable = (Len(past) > 0)
    /\ hookRedoAvailable = (Len(future) > 0)

\* C14: an undo with executed empty and a redo with reversed empty change
\* nothing of the session or the store and run no callback.
C14_EmptySideIsNoOp ==
  [][((Does("undo") /\ past = <<>>) \/ (Does("redo") /\ future = <<>>))
       => (progVars' = progVars /\ invoked' = <<>>)]_vars

\* An undo with executed empty while reversed holds an action.
C14_Witness ==
  /\ lastOp = "undo"
  /\ invoked = <<>>
  /\ past = <<>>
  /\ Len(future) >= 1

\* C15: a commit of newValue from live value p, log L and executed E leaves
\* the live value newValue, the in-memory log and the persisted log L followed
\* by newValue, and executed E followed by one action whose do sets newValue
\* and whose undo sets p, also when newValue = p.
C15_CommitRecords ==
  [][Does("commit") =>
       /\ text' = lastArg'
       /\ historyRef' = Arr(Spread(historyRef) \o <<lastArg'>>)
       /\ lsHistory' # Absent
       /\ JsonParse(lsHistory'[1]).ok
       /\ StoredLog(lsHistory') = Arr(Spread(historyRef) \o <<lastArg'>>)
       /\ Len(past') = Len(past) + 1
       /\ SubSeq(past', 1, Len(past)) = past
       /\ DoText(past'[Len(past')]) = lastArg'
       /\ UndoText(past'[Len(past')]) = text]_vars

\* A commit of the value already there, onto a stack that held an action.
C15_Witness ==
  /\ lastOp = "commit"
  /\ lastArg = prevText
  /\ lastArg # EmptyText
  /\ Len(past) >= 2
  /\ Length(historyRef) >= 3

\* C16: an initialization that parses a log of N >= 1 entries leaves N-1
\* actions in executed, the i-th made from log[i-1] and log[i] (0-based) and
\* its do setting log[i], and leaves reversed empty; one that finds no log
\* leaves the stack empty and the in-memory log [content], [""] without
\* content.
C16_LoadReplaysLog ==
  lastOp = "load" =>
    /\ HoldsLog(lsHistory)
         => /\ historyRef = StoredLog(lsHistory)
            /\ Len(past) = Length(StoredLog(lsHistory)) - 1
            /\ \A i \in 1..Len(past) :
                 /\ past[i].args = <<At(StoredLog(lsHistory), i + 1),
                                     At(StoredLog(lsHistory), i)>>
                 /\ DoText(past[i]) = At(StoredLog(lsHistory), i + 1)
            /\ future = <<>>
    /\ lsHistory = Absent
         => /\ past = <<>>
            /\ future = <<>>
            /\ historyRef = Arr(<<Str(OrEmpty(loaded.content))>>)

\* An initialization from a log of three entries with different neighbours.
C16_Witness ==
  /\ lastOp = "load"
  /\ Len(past) = 2
  /\ past[1].args # past[2].args
  /\ IsLog(historyRef)
  /\ Length(historyRef) = 3

\* C17: clearContent from live value v leaves the live value "", the
\* in-memory log and the persisted log [""], executed holding the clear action
\* alone and reversed empty; undoing that action makes the log ["", v].
C17_ClearResetsAndUndoAppends ==
  /\ [](lastOp = "clear" =>
          /\ text = EmptyText
          /\ historyRef = Arr(<<EmptyText>>)
          /\ lsHistory = Present(Stringify(Arr(<<EmptyText>>)))
          /\ Len(past) = 1
          /\ past[1].kind = "clear"
          /\ future = <<>>)
  /\ [][(lastOp = "clear" /\ Does("undo"))
          => (historyRef' = Arr(<<EmptyText, prevText>>)
              /\ lsHistory' = Present(Stringify(Arr(<<EmptyText, prevText>>))))]_vars

\* The actions the stack holds, executed first.
Recorded == past \o future

\* C18: no action object occurs twice in executed and reversed taken
\* together; an undo moves the last action of executed, that object and no
\* other, to the front of reversed, and a redo moves the front action of
\* reversed to the end of executed, so |executed| + |reversed| is kept.
C18_EachActionInOnePlace ==
  /\ [](\A i, j \in 1..Len(Recorded) :
          Recorded[i].id = Recorded[j].id => i = j)
  /\ [][(Does("undo") /\ past # <<>>)
          => (/\ past' = SubSeq(past, 1, Len(past) - 1)
              /\ future' = <<past[Len(past)]>> \o future)]_vars
  /\ [][(Does("redo") /\ future # <<>>)
          => (/\ future' = Tail(future)
              /\ past' = Append(past, future[1]))]_vars
  /\ [][(Does("undo") \/ Does("redo"))
          => (Len(past') + Len(future') = Len(past) + Len(future))]_vars

\* A redo has moved an action back while both sequences hold others, two of
\* which captured the same values.
C18_Witness ==
  /\ lastOp = "redo"
  /\ invoked # <<>>
  /\ Len(past) >= 2
  /\ future # <<>>
  /\ \E i, j \in 1..Len(Recorded) : i # j /\ Recorded[i].args = Recorded[j].args

\* An undo or a redo has just run the callback of a commit-created action.
MovedCommit(op, ran) ==
  /\ op \in {"undo", "redo"}
  /\ ran # <<>>
  /\ ran[1].kind = "commit"

\* C19: undoing or redoing a commit-created action records nothing: the
\* in-memory log and the persisted log are unchanged, no action is added to or
\* dropped from executed and reversed (the two, end to end, are the same
\* sequence, the boundary one place over), and apart from that only the live
\* value changes, with the persisted content written exactly when it does.
C19_UndoRedoRecordNothing ==
  [][(MovedCommit(lastOp', invoked') /\ steps' = steps + 1)
       => (/\ historyRef' = historyRef
           /\ lsHistory' = lsHistory
           /\ past' \o future' = past \o future
           /\ Len(past') = (IF lastOp' = "undo" THEN Len(past) - 1
                                                ELSE Len(past) + 1)
           /\ created' = created
           /\ isLoaded' = isLoaded
           /\ scheduled' = scheduled
           /\ isUndoRedoOperation' = isUndoRedoOperation
           /\ text' = (IF lastOp' = "undo" THEN invoked'[1].args[2]
                                           ELSE invoked'[1].args[1])
           /\ lsContent' = (IF ObjectIs(text', text) THEN lsContent
                            ELSE Present(ToString(text'))))]_vars

\* A second undo in a row of a commit-created action has changed the live
\* value, under a log of at least three entries.
C19_Witness ==
  /\ MovedCommit(lastOp, invoked)
  /\ lastOp = "undo"
  /\ text # prevText
  /\ Len(future) >= 2
  /\ Length(historyRef) >= 3
  /\ lsContent = Present(ToString(text))

\* C20: the reentrancy flag is false in every state between operations, so
\* every commit takes the recording branch: it appends its value to the
\* in-memory log, persists the log and records one commit-created action at
\* the end of executed.
C20_FlagFalseBetweenOperations ==
  /\ [](isUndoRedoOperation = FALSE)
  /\ [][Does("commit")
          => (/\ historyRef' = Arr(Spread(historyRef) \o <<lastArg'>>)
              /\ lsHistory' = Present(Stringify(historyRef'))
              /\ Len(past') = Len(past) + 1
              /\ past'[Len(past')].kind = "commit"
              /\ past'[Len(past')].args = <<lastArg', text>>)]_vars

\* A commit recorded after the callbacks of a clear and of an undo have each
\* set and reset the flag.
C20_Witness ==
  /\ lastOp = "commit"
  /\ ~isUndoRedoOperation
  /\ Len(past) >= 3
  /\ past[1].kind = "clear"
  /\ past[Len(past)].kind = "commit"
  /\ discarded >= 1

=============================================================================
